---- MODULE Spec2Model ----
(***************************************************************************)
(* Model of the WorldCat pool service (uvalib/virgo4-pool-worldcat-ws):     *)
(* the search handler of cmd/worldcat.go and the query translation it      *)
(* performs (convertDateCriteria, extractYear, prefix substitution,         *)
(* minimum-content check, filter short-circuit, identifier augmentation,    *)
(* institution exclusion, upstream GET).                                    *)
(*                                                                         *)
(* Go strings are modelled as sequences of one-character strings, so that  *)
(* strings.Index, strings.Contains, strings.ReplaceAll, strings.Trim,       *)
(* strings.Split, strconv.Atoi and regexp.Match are computed character by   *)
(* character, the way the Go library computes them.                        *)
(***************************************************************************)
EXTENDS Integers, Sequences, FiniteSets, TLC

VARIABLES pc, req, query, iters, parsedQ, resp, gets, ran,
          paginationStr, sortKey, qURL,
          rpc, wcResp, jsonResp, resourceResp, fmtJSON,
          now, oclc, lookup, issued, failedTokens,
          text, applied

\* the locals of the search handler and what it sent and answered
searchVars == <<pc, req, query, iters, parsedQ, resp, gets, ran,
                paginationStr, sortKey, qURL>>
\* the locals of the resource handler and what it answered
resourceVars == <<rpc, wcResp, jsonResp, resourceResp, fmtJSON>>
\* the clock, the token cache svc.OCLC shared by all requests, the resource
\* lookups that use it, the tokens handed out and those that failed
authVars == <<now, oclc, lookup, issued, failedTokens>>
\* a text and the results of prefix substitution applied to it
substVars == <<text, applied>>
vars == <<pc, req, query, iters, parsedQ, resp, gets, ran,
          paginationStr, sortKey, qURL, rpc, wcResp, jsonResp, resourceResp, fmtJSON,
          now, oclc, lookup, issued, failedTokens, text, applied>>

(***************************************************************************)
(* Bounds of the model.                                                    *)
(***************************************************************************)
\* the largest number of criteria joined into one query
MaxClauses == 2
\* the largest number of entries of the request's filters list
MaxFilters == 1
\* the largest number of records in one upstream search response
MaxRecords == 1
\* the largest start offset of a request's pagination
MaxStart == 2
\* the largest row count of a request's pagination
MaxRows == 2
\* the largest number of values in the identifier list of a record
MaxIdentifiers == 2
\* the number of resource lookups that run at the same time
MaxLookups == 2
\* the last tick of the clock
MaxTime == 2
\* the largest number of tokens the auth server hands out
MaxTokens == 2
\* the largest number of pieces of a text given to prefix substitution
MaxPieces == 3

(***************************************************************************)
(* String literals of the source.                                          *)
(***************************************************************************)
mDate == <<"d","a","t","e",":">>
mJournal == <<"j","o","u","r","n","a","l","_","t","i","t","l","e",":">>
mFilter == <<"f","i","l","t","e","r",":">>
mKeyword == <<"k","e","y","w","o","r","d",":">>
mTitle == <<"t","i","t","l","e",":">>
mAuthor == <<"a","u","t","h","o","r",":">>
mSubject == <<"s","u","b","j","e","c","t",":">>
mIdentifier == <<"i","d","e","n","t","i","f","i","e","r",":">>
pKw == <<"s","r","w",".","k","w"," ","a","l","l">>
pTi == <<"s","r","w",".","t","i"," ","a","l","l">>
pAu == <<"s","r","w",".","a","u"," ","a","l","l">>
pSu == <<"s","r","w",".","s","u"," ","a","l","l">>
pBn == <<"s","r","w",".","b","n"," ","=">>
pKwStar == <<"s","r","w",".","k","w"," ","a","l","l"," ","*">>
sSrw == <<"s","r","w",".">>
sSrwKw == <<"s","r","w",".","k","w">>
sAll == <<"a","l","l">>
sOrBn == <<" ","O","R"," ","s","r","w",".","b","n"," ","="," ">>
sExclude == <<" ","N","O","T"," ","s","r","w",".","l","i"," ","="," ","V","A","@"," "," ","N","O","T"," ","s","r","w",".","l","i"," ","="," ","V","A","L"," ","N","O","T"," ","s","r","w",".","l","i"," ","="," ","V","A","M">>
sAFTER == <<"A","F","T","E","R">>
sBEFORE == <<"B","E","F","O","R","E">>
sTO == <<"T","O">>
sSpTOSp == <<" ","T","O"," ">>
sYrGt == <<"s","r","w",".","y","r"," ",">"," ">>
sYrLt == <<"s","r","w",".","y","r"," ","<"," ">>
sYrEq == <<"s","r","w",".","y","r"," ","="," ">>
sYrGe == <<"s","r","w",".","y","r"," ",">","="," ">>
sAndYrLe == <<" ","a","n","d"," ","s","r","w",".","y","r"," ","<","="," ">>
sLB == <<"{">>
sRB == <<"}">>
sDash == <<"-">>
sSP == <<" ">>

\* error texts of convertDateCriteria / extractYear and the handler's bodies
ErrYear == "Only 4 digit year is accepted in a date search"
ErrStart == "Starting year is invalid"
ErrEnd == "Ending year is invalid"
ErrPanic == "runtime error: slice bounds out of range"
MsgInvalid == "invalid request"
MsgMalformed == "Malformed search"
MsgJournal == "Journal Title queries are not supported"
MsgMinLen == "At least 3 characters are required."

(***************************************************************************)
(* The Go string library, on sequences of characters.                      *)
(***************************************************************************)
Digits == {"0","1","2","3","4","5","6","7","8","9"}

\* strings.Index: 0-based offset of the first occurrence, -1 if none
Index(s, substr) ==
    LET hits == {i \in 0..(Len(s) - Len(substr)) :
                    SubSeq(s, i + 1, i + Len(substr)) = substr}
    IN  IF hits = {} THEN -1 ELSE CHOOSE i \in hits : \A j \in hits : i <= j

\* strings.LastIndex: 0-based offset of the last occurrence, -1 if none
LastIndex(s, substr) ==
    LET hits == {i \in 0..(Len(s) - Len(substr)) :
                    SubSeq(s, i + 1, i + Len(substr)) = substr}
    IN  IF hits = {} THEN -1 ELSE CHOOSE i \in hits : \A j \in hits : j <= i

\* strings.Contains
Contains(s, substr) == Index(s, substr) # -1

\* strings.ReplaceAll: non-overlapping occurrences, left to right
RECURSIVE ReplaceAll(_, _, _)
ReplaceAll(s, old, new) ==
    IF Len(s) < Len(old) THEN s
    ELSE IF SubSeq(s, 1, Len(old)) = old
         THEN new \o ReplaceAll(SubSeq(s, Len(old) + 1, Len(s)), old, new)
         ELSE <<Head(s)>> \o ReplaceAll(Tail(s), old, new)

\* strings.Trim(s, " "): leading and trailing spaces removed
Trim(s) ==
    LET keep == {i \in 1..Len(s) : s[i] # " "}
    IN  IF keep = {} THEN <<>>
        ELSE SubSeq(s, CHOOSE i \in keep : \A j \in keep : i <= j,
                       CHOOSE i \in keep : \A j \in keep : j <= i)

\* strings.TrimSpace: leading and trailing white space removed
TrimSpace(s) ==
    LET keep == {i \in 1..Len(s) : s[i] \notin {" ", "\t", "\n", "\r"}}
    IN  IF keep = {} THEN <<>>
        ELSE SubSeq(s, CHOOSE i \in keep : \A j \in keep : i <= j,
                       CHOOSE i \in keep : \A j \in keep : j <= i)

\* strings.Split: the pieces between the occurrences of sep
RECURSIVE Split(_, _)
Split(s, sep) ==
    LET i == Index(s, sep)
    IN  IF i = -1 THEN <<s>>
        ELSE <<SubSeq(s, 1, i)>> \o Split(SubSeq(s, i + Len(sep) + 1, Len(s)), sep)

\* strconv.Atoi returns no error: an optional sign and one or more digits
\* (the values of the model are far below the int range)
AtoiOk(s) ==
    LET d == IF Len(s) > 0 /\ s[1] \in {"+", "-"} THEN Tail(s) ELSE s
    IN  Len(d) > 0 /\ \A i \in 1..Len(d) : d[i] \in Digits

\* regexp.Match(`\d{4}`, year): the pattern is not anchored, it matches when
\* four consecutive digits occur anywhere in the text
MatchFourDigits(s) ==
    \E i \in 1..(Len(s) - 3) : \A k \in 0..3 : s[i + k] \in Digits

\* strings.HasPrefix
HasPrefix(s, prefix) ==
    Len(s) >= Len(prefix) /\ SubSeq(s, 1, Len(prefix)) = prefix

\* strings.HasSuffix
HasSuffix(s, suffix) ==
    Len(s) >= Len(suffix) /\ SubSeq(s, Len(s) - Len(suffix) + 1, Len(s)) = suffix

\* the number of non-overlapping occurrences of substr (strings.Count)
RECURSIVE Count(_, _)
Count(s, substr) ==
    LET i == Index(s, substr)
    IN  IF i = -1 THEN 0
        ELSE 1 + Count(SubSeq(s, i + Len(substr) + 1, Len(s)), substr)

(***************************************************************************)
(* Date conversion.                                                        *)
(***************************************************************************)
\* extractYear: the text before the first "-", accepted when it matches \d{4}
extractYear(yearStr) ==
    LET parts == Split(yearStr, sDash)
        year == parts[1]
    IN  IF ~MatchFourDigits(year)
        THEN [year |-> <<>>, err |-> ErrYear]
        ELSE [year |-> year, err |-> ""]

\* the AFTER branch of convertDateCriteria
convertAfter(qt) ==
    LET yearStr == Trim(ReplaceAll(qt, sAFTER, <<>>))
        y == extractYear(yearStr)
    IN  IF y.err # "" THEN [qt |-> <<>>, err |-> y.err]
        ELSE [qt |-> sYrGt \o y.year, err |-> ""]

\* the BEFORE branch of convertDateCriteria
convertBefore(qt) ==
    LET yearStr == Trim(ReplaceAll(qt, sBEFORE, <<>>))
        y == extractYear(yearStr)
    IN  IF y.err # "" THEN [qt |-> <<>>, err |-> y.err]
        ELSE [qt |-> sYrLt \o y.year, err |-> ""]

\* the TO branch of convertDateCriteria: both extractYear calls read years[0]
convertRange(qt) ==
    LET years == Split(qt, sSpTOSp)
        yearFrom == extractYear(years[1])
        yearTo == extractYear(years[1])
    IN  IF yearFrom.err # "" THEN [qt |-> <<>>, err |-> ErrStart]
        ELSE IF yearTo.err # "" THEN [qt |-> <<>>, err |-> ErrEnd]
        ELSE [qt |-> sYrGe \o yearFrom.year \o sAndYrLe \o yearTo.year, err |-> ""]

\* the last branch of convertDateCriteria: an exact year
convertExact(qt) ==
    LET yearStr == Trim(qt)
        y == extractYear(yearStr)
    IN  IF y.err # "" THEN [qt |-> <<>>, err |-> y.err]
        ELSE [qt |-> sYrEq \o y.year, err |-> ""]

\* the classification of the text between the braces
convertShape(qt) ==
    IF Contains(qt, sAFTER) THEN convertAfter(qt)
    ELSE IF Contains(qt, sBEFORE) THEN convertBefore(qt)
    ELSE IF Contains(qt, sTO) THEN convertRange(qt)
    ELSE convertExact(qt)

\* dateIteration with the closing brace's offset in chunk used as an offset in
\* query (the "dateIdx +" of line 746 forgotten)
dateIteration_ChunkOffset(q) ==
    LET dateIdx == Index(q, mDate)
        chunk == SubSeq(q, dateIdx + 1, Len(q))
        i0 == Index(chunk, sLB)
        i1 == Index(chunk, sRB)
        pre == Trim(SubSeq(q, 1, dateIdx))
        post == Trim(SubSeq(q, i1 + 2, Len(q)))
        qt == Trim(SubSeq(chunk, i0 + 2, i1))
        r == convertShape(qt)
    IN  IF i0 + 1 > i1 THEN [query |-> <<>>, err |-> ErrPanic]
        ELSE IF r.err # "" THEN [query |-> <<>>, err |-> r.err]
        ELSE [query |-> pre \o sSP \o r.qt \o sSP \o post, err |-> ""]

\* dateIteration with the text before the marker left out of the result
dateIteration_NoPre(q) ==
    LET dateIdx == Index(q, mDate)
        chunk == SubSeq(q, dateIdx + 1, Len(q))
        i0 == Index(chunk, sLB)
        i1 == Index(chunk, sRB)
        post == Trim(SubSeq(q, dateIdx + i1 + 2, Len(q)))
        qt == Trim(SubSeq(chunk, i0 + 2, i1))
        r == convertShape(qt)
    IN  IF i0 + 1 > i1 THEN [query |-> <<>>, err |-> ErrPanic]
        ELSE IF r.err # "" THEN [query |-> <<>>, err |-> r.err]
        ELSE [query |-> sSP \o r.qt \o sSP \o post, err |-> ""]

\* one iteration of the loop of convertDateCriteria, entered when the query
\* holds a "date:" marker.  Go slices are 0-based and half-open: query[a:b] is
\* SubSeq(query, a + 1, b); chunk[i0+1:i1] panics when i0 + 1 > i1.
dateIteration(q) ==
    LET dateIdx == Index(q, mDate)
        chunk == SubSeq(q, dateIdx + 1, Len(q))
        i0 == Index(chunk, sLB)
        i1 == Index(chunk, sRB)
        pre == Trim(SubSeq(q, 1, dateIdx))
        post == Trim(SubSeq(q, dateIdx + i1 + 2, Len(q)))
        qt == Trim(SubSeq(chunk, i0 + 2, i1))
        r == convertShape(qt)
    IN  IF i0 + 1 > i1 THEN [query |-> <<>>, err |-> ErrPanic]
        ELSE IF r.err # "" THEN [query |-> <<>>, err |-> r.err]
        ELSE [query |-> pre \o sSP \o r.qt \o sSP \o post, err |-> ""]

\* convertDateCriteria as a whole: iterate until no "date:" marker is left
RECURSIVE convertDateCriteria(_)
convertDateCriteria(q) ==
    IF Index(q, mDate) = -1 THEN [query |-> q, err |-> ""]
    ELSE LET r == dateIteration(q)
         IN  IF r.err # "" THEN r ELSE convertDateCriteria(r.query)

(***************************************************************************)
(* Prefix substitution, minimum content, identifier augmentation.           *)
(***************************************************************************)
\* substitutePrefixes with the braces stripped after the replacements
substitutePrefixes_BracesLast(q) ==
    LET c == ReplaceAll(q, mKeyword, pKw)
        d == ReplaceAll(c, mTitle, pTi)
        e == ReplaceAll(d, mAuthor, pAu)
        f == ReplaceAll(e, mSubject, pSu)
        g == ReplaceAll(f, mIdentifier, pBn)
        a == ReplaceAll(g, sLB, <<>>)
        b == ReplaceAll(a, sRB, <<>>)
    IN  TrimSpace(b)

\* search, lines 550-557: brace stripping, the five marker replacements, trim
substitutePrefixes(q) ==
    LET a == ReplaceAll(q, sLB, <<>>)
        b == ReplaceAll(a, sRB, <<>>)
        c == ReplaceAll(b, mKeyword, pKw)
        d == ReplaceAll(c, mTitle, pTi)
        e == ReplaceAll(d, mAuthor, pAu)
        f == ReplaceAll(e, mSubject, pSu)
        g == ReplaceAll(f, mIdentifier, pBn)
    IN  TrimSpace(g)

\* isDegenerate without the bare keyword prefix
isDegenerate_StarOnly(q) == q = pKwStar

\* search, line 559: the query is the bare keyword prefix, or it and one "*"
isDegenerate(q) == q = pKw \/ q = pKwStar

\* isSingleKeyword without the comparison with the offset of "srw.kw"
isSingleKeyword_AnyField(q) ==
    /\ Contains(q, sSrw)
    /\ Index(q, sSrw) = LastIndex(q, sSrw)

\* search, lines 577-579: exactly one "srw." and it starts "srw.kw"
isSingleKeyword(q) ==
    /\ Contains(q, sSrw)
    /\ Index(q, sSrw) = LastIndex(q, sSrw)
    /\ Index(q, sSrw) = Index(q, sSrwKw)

\* search, lines 576-585: the identifier clause added to a numeric keyword query
augmentIdentifier(q) ==
    IF isSingleKeyword(q)
    THEN LET param == Trim(Split(q, sAll)[2])
         IN  IF AtoiOk(param) THEN q \o sOrBn \o param ELSE q
    ELSE q

\* appendExclusions with the clauses left out
appendExclusions_None(q) == q

\* search, line 589: the institution exclusion clauses
appendExclusions(q) == q \o sExclude

(***************************************************************************)
(* The requests the model draws.                                           *)
(***************************************************************************)
\* markers of the query grammar that the source never names
mFulltext == <<"f","u","l","l","t","e","x","t",":">>
mSeries == <<"s","e","r","i","e","s",":">>
\* connectives and values of the queries
sAND == <<" ","A","N","D"," ">>
sOR == <<" ","O","R"," ">>
sNOT == <<" ","N","O","T"," ">>
sStar == <<"*">>
vCats == <<"c","a","t","s">>
vInt == <<"1","2","3">>
vNature == <<"n","a","t","u","r","e">>
vPoe == <<"p","o","e">>
vArt == <<"a","r","t">>
vX == <<"x">>
\* year tokens: four digits, two digits, five digits, a letter next to four
\* digits, a year with a month
y1987 == <<"1","9","8","7">>
y1990 == <<"1","9","9","0">>
y87 == <<"8","7">>
y19876 == <<"1","9","8","7","6">>
yx1987 == <<"x","1","9","8","7">>
y1987m05 == <<"1","9","8","7","-","0","5">>

\* a criterion "field: {value}"
Criterion(marker, value) == marker \o sSP \o sLB \o value \o sRB

\* the year tokens of the date criteria, and the four-digit ones among them
ValidYears == {y1987, y1990}
YearTokens == ValidYears \cup {y87, y19876, yx1987}

\* the four shapes of a date criterion
DateExact(y) == Criterion(mDate, y)
DateAfter(y) == Criterion(mDate, sAFTER \o sSP \o y)
DateBefore(y) == Criterion(mDate, sBEFORE \o sSP \o y)
DateRange(a, b) == Criterion(mDate, a \o sSpTOSp \o b)

DateClauses ==
    {DateExact(y) : y \in YearTokens \cup {y1987m05}}
    \cup {DateAfter(y) : y \in YearTokens}
    \cup {DateBefore(y) : y \in YearTokens}
    \cup {DateRange(y[1], y[2]) : y \in YearTokens \X YearTokens}

FieldClauses ==
    { Criterion(mKeyword, vCats), Criterion(mKeyword, vInt),
      Criterion(mKeyword, <<>>), Criterion(mKeyword, sStar),
      Criterion(mKeyword, sSP \o sStar \o sSP), Criterion(mKeyword, sSP \o vInt \o sSP),
      Criterion(mTitle, vCats), Criterion(mTitle, vInt),
      Criterion(mAuthor, vPoe), Criterion(mSubject, vArt),
      Criterion(mIdentifier, vInt),
      Criterion(mJournal, vNature), Criterion(mFulltext, vCats),
      Criterion(mSeries, vCats), Criterion(mFilter, vX) }

\* the criteria that are joined into queries of several criteria
JoinedClauses ==
    { Criterion(mKeyword, vCats), Criterion(mKeyword, vInt),
      Criterion(mJournal, vNature), Criterion(mFilter, vX),
      DateExact(y1987), DateAfter(y1990),
      DateRange(y1987, y1990), DateExact(y87) }

Connectives == {sAND, sOR, sNOT}

\* the queries of exactly n joined criteria
RECURSIVE Joined(_)
Joined(n) ==
    IF n = 1 THEN JoinedClauses
    ELSE {x[1] \o x[2] \o x[3] : x \in Joined(n - 1) \X Connectives \X JoinedClauses}

Queries ==
    FieldClauses \cup DateClauses \cup UNION {Joined(n) : n \in 1..MaxClauses}

\* v4api.SortOptionEnum.String()
SortRelevance == "SortRelevance"
SortDate == "SortDatePublished"
SortTitle == "SortTitle"
SortAuthor == "SortAuthor"

\* the sort orders of a request: every known sort ID, an empty one and one the
\* service does not know, each with asc, desc, no order and an unknown order
SortIDs == {SortRelevance, SortDate, SortTitle, SortAuthor, "", "SortCallNumber"}
Orders == {"asc", "desc", "", "down"}
Sorts == [SortID : SortIDs, Order : Orders]

\* the pages of a request
Pages == [start : 0..MaxStart, rows : 0..MaxRows]

\* the requests: every query with any number of filters and either verdict
\* of the validator, asked for the first page by relevance; and two queries
\* with every page and every sort order
FirstPage == [start |-> 0, rows |-> MaxRows]
ByRelevance == [SortID |-> SortRelevance, Order |-> "desc"]
PagedQueries == {Criterion(mKeyword, vCats), DateExact(y1987)}
Requests ==
    {[query |-> q, filters |-> n, valid |-> v, pagination |-> FirstPage, sort |-> ByRelevance] :
        q \in Queries, n \in 0..MaxFilters, v \in BOOLEAN}
    \cup {[query |-> q, filters |-> 0, valid |-> TRUE, pagination |-> p, sort |-> s] :
        q \in PagedQueries, p \in Pages, s \in Sorts}

\* getSortKey with the date sort blind to the order
getSortKey_OrderBlind(sort) ==
    IF sort.SortID = SortAuthor
    THEN (IF sort.Order = "asc" THEN "Author" ELSE "Author,,0")
    ELSE IF sort.SortID = SortTitle
    THEN (IF sort.Order = "asc" THEN "Title" ELSE "Title,,0")
    ELSE IF sort.SortID = SortDate
    THEN "Date,,0"
    ELSE "relevance"

\* getSortKey, lines 799-819
getSortKey(sort) ==
    IF sort.SortID = SortAuthor
    THEN (IF sort.Order = "asc" THEN "Author" ELSE "Author,,0")
    ELSE IF sort.SortID = SortTitle
    THEN (IF sort.Order = "asc" THEN "Title" ELSE "Title,,0")
    ELSE IF sort.SortID = SortDate
    THEN (IF sort.Order = "asc" THEN "Date" ELSE "Date,,0")
    ELSE "relevance"

\* the outcomes of the upstream GET: a failed request with the status that
\* handleAPIResponse reports, a body that is not the expected XML, or a parsed
\* response with a record count and records (each with or without a title)
ErrStatuses == {400, 408, 503, 500}
RecordLists == UNION {[1..n -> BOOLEAN] : n \in 0..MaxRecords}
Replies ==
    {[kind |-> "error", status |-> s, count |-> 0, records |-> <<>>] : s \in ErrStatuses}
    \cup {[kind |-> "badxml", status |-> 200, count |-> 0, records |-> <<>>]}
    \cup {[kind |-> "ok", status |-> 200, count |-> c, records |-> r] :
             c \in 0..MaxRecords, r \in RecordLists}

(***************************************************************************)
(* The search handler.                                                     *)
(***************************************************************************)
NoReq ==
    [query |-> <<>>, filters |-> 0, valid |-> FALSE,
     pagination |-> [start |-> 0, rows |-> 0], sort |-> [SortID |-> "", Order |-> ""]]
\* the empty token string, and the tokens of the auth server
NoToken == 0
Tokens == 1..MaxTokens
\* the zero time.Time, before every tick of the clock
ZeroTime == 0
\* the expiry times an auth response can carry; time.Parse gives the zero
\* time for a text it cannot read
ExpiryTimes == 0..(MaxTime + 1)
\* the resource lookups in progress
Lookups == 1..MaxLookups
\* a lookup that has not begun: no bearer token sent, no refresh finished
\* (a number that is no token)
NotYet == MaxTokens + 1
NoLookup == [pc |-> "idle", bearer |-> NotYet, refreshed |-> NotYet]

\* the resource handler before xml.Unmarshal and before it answers
NoRecord ==
    [ID |-> <<>>, Date |-> <<>>, Language |-> <<>>, ISBN |-> <<>>, Creator |-> <<>>,
     Contributor |-> <<>>, Description |-> <<>>, Subjects |-> <<>>, Title |-> <<>>,
     Type |-> <<>>, Formats |-> <<>>, Publishers |-> <<>>]
NoResourceResp == [code |-> 0, kind |-> "", fields |-> <<>>]
\* the resource handler before the format lookup has answered
NoFormat == [kind |-> "", GeneralFormat |-> <<>>, SpecificFormat |-> <<>>]
NoResp == [code |-> 0, msg |-> "", groups |-> 0, total |-> 0]

\* c.String(code, msg)
StringResp(code, msg) == [code |-> code, msg |-> msg, groups |-> 0, total |-> 0]
\* c.JSON(code, v4Resp)
JSONResp(code, msg, groups, total) ==
    [code |-> code, msg |-> msg, groups |-> groups, total |-> total]

InitHandlers ==
    /\ pc = "idle"
    /\ req = NoReq
    /\ query = <<>>
    /\ iters = 0
    /\ parsedQ = <<>>
    /\ resp = NoResp
    /\ gets = <<>>
    /\ ran = {}
    /\ paginationStr = [startRecord |-> 0, maximumRecords |-> 0]
    /\ sortKey = ""
    /\ qURL = <<>>
    /\ rpc = "idle"
    /\ wcResp = NoRecord
    /\ jsonResp = <<>>
    /\ resourceResp = NoResourceResp
    /\ fmtJSON = NoFormat
    /\ now = 1
    /\ oclc = [Token |-> NoToken, Expires |-> ZeroTime]
    /\ lookup = [p \in Lookups |-> NoLookup]
    /\ issued = 0
    /\ failedTokens = {}

\* the service after start; no text is under substitution
Init ==
    /\ InitHandlers
    /\ text = <<>>
    /\ applied = <<>>

\* lines 511-516: the body is not a search request
RejectBody ==
    /\ pc = "idle"
    /\ resp' = StringResp(400, MsgInvalid)
    /\ pc' = "done"
    /\ UNCHANGED <<req, query, iters, parsedQ, gets, ran, paginationStr, sortKey, qURL>>
    /\ UNCHANGED <<resourceVars, authVars, substVars>>

\* lines 511-523: the request is bound; v4parser.Validate is an external
\* library, its verdict on the query is an input
Receive ==
    /\ pc = "idle"
    /\ \E r \in Requests : req' = r
    /\ pc' = "validate"
    /\ UNCHANGED <<query, iters, parsedQ, resp, gets, ran, paginationStr, sortKey, qURL>>
    /\ UNCHANGED <<resourceVars, authVars, substVars>>

\* lines 524-529
Validate ==
    /\ pc = "validate"
    /\ ran' = ran \cup {"validate"}
    /\ IF ~req.valid
       THEN /\ resp' = StringResp(400, MsgMalformed)
            /\ pc' = "done"
       ELSE /\ pc' = "journal"
            /\ UNCHANGED resp
    /\ UNCHANGED <<req, query, iters, parsedQ, gets, paginationStr, sortKey, qURL>>
    /\ UNCHANGED <<resourceVars, authVars, substVars>>

\* journalCheck with strings.HasPrefix in the place of strings.Contains
journalCheck_PrefixOnly(q) == Index(q, mJournal) = 0

\* lines 531-536
journalCheck(q) == Contains(q, mJournal)

JournalCheck ==
    /\ pc = "journal"
    /\ ran' = ran \cup {"unsupported"}
    /\ IF journalCheck(req.query)
       THEN /\ resp' = StringResp(501, MsgJournal)
            /\ pc' = "done"
            /\ UNCHANGED <<query, paginationStr, sortKey>>
       ELSE /\ pc' = "convertDate"
            /\ paginationStr' = [startRecord |-> req.pagination.start,
                                 maximumRecords |-> req.pagination.rows]
            /\ sortKey' = getSortKey(req.sort)
            /\ query' = req.query
            /\ UNCHANGED resp
    /\ UNCHANGED <<req, iters, parsedQ, gets, qURL>>
    /\ UNCHANGED <<resourceVars, authVars, substVars>>

\* lines 737-785: one pass of the loop of convertDateCriteria; an error ends
\* the handler with 400 (lines 545-549), a panic is recovered by gin with 500
ConvertDateIter ==
    /\ pc = "convertDate"
    /\ Index(query, mDate) # -1
    /\ ran' = ran \cup {"convertDate"}
    /\ LET r == dateIteration(query)
       IN  IF r.err = ErrPanic
           THEN /\ resp' = StringResp(500, "")
                /\ pc' = "done"
                /\ UNCHANGED <<query, iters>>
           ELSE IF r.err # ""
           THEN /\ resp' = StringResp(400, r.err)
                /\ pc' = "done"
                /\ UNCHANGED <<query, iters>>
           ELSE /\ query' = r.query
                /\ iters' = iters + 1
                /\ UNCHANGED <<resp, pc>>
    /\ UNCHANGED <<req, parsedQ, gets, paginationStr, sortKey, qURL>>
    /\ UNCHANGED <<resourceVars, authVars, substVars>>

\* lines 738-741, 786, 544: no marker is left, the query is returned
ConvertDateDone ==
    /\ pc = "convertDate"
    /\ Index(query, mDate) = -1
    /\ ran' = ran \cup {"convertDate"}
    /\ parsedQ' = query
    /\ pc' = "substitute"
    /\ UNCHANGED <<req, query, iters, resp, gets, paginationStr, sortKey, qURL>>
    /\ UNCHANGED <<resourceVars, authVars, substVars>>

\* lines 550-562
Substitute ==
    /\ pc = "substitute"
    /\ ran' = ran \cup {"substitute", "minContent"}
    /\ parsedQ' = substitutePrefixes(parsedQ)
    /\ IF isDegenerate(parsedQ')
       THEN /\ resp' = StringResp(501, MsgMinLen)
            /\ pc' = "done"
       ELSE /\ pc' = "filter"
            /\ UNCHANGED resp
    /\ UNCHANGED <<req, query, iters, gets, paginationStr, sortKey, qURL>>
    /\ UNCHANGED <<resourceVars, authVars, substVars>>

\* hasFilter without the test of the request's filters list
hasFilter_QueryOnly(r) == Contains(r.query, mFilter)

\* lines 564-574
hasFilter(r) == r.filters > 0 \/ Contains(r.query, mFilter)

FilterCheck ==
    /\ pc = "filter"
    /\ ran' = ran \cup {"filter"}
    /\ IF hasFilter(req)
       THEN /\ resp' = JSONResp(200, "", 0, 0)
            /\ pc' = "done"
       ELSE /\ pc' = "augment"
            /\ UNCHANGED resp
    /\ UNCHANGED <<req, query, iters, parsedQ, gets, paginationStr, sortKey, qURL>>
    /\ UNCHANGED <<resourceVars, authVars, substVars>>

\* lines 576-585; Split(parsedQ, "all")[1] panics when there is no second piece
Augment ==
    /\ pc = "augment"
    /\ ran' = ran \cup {"augment"}
    /\ IF isSingleKeyword(parsedQ) /\ Len(Split(parsedQ, sAll)) < 2
       THEN /\ resp' = StringResp(500, "")
            /\ pc' = "done"
            /\ UNCHANGED parsedQ
       ELSE /\ parsedQ' = augmentIdentifier(parsedQ)
            /\ pc' = "get"
            /\ UNCHANGED resp
    /\ UNCHANGED <<req, query, iters, gets, paginationStr, sortKey, qURL>>
    /\ UNCHANGED <<resourceVars, authVars, substVars>>

\* lines 587-594: the exclusion clauses are appended and the GET is sent
Get ==
    /\ pc = "get"
    /\ ran' = ran \cup {"get"}
    /\ parsedQ' = appendExclusions(parsedQ)
    /\ gets' = Append(gets, parsedQ')
    /\ qURL' = Append(qURL, [pagination |-> paginationStr, sortKeys |-> sortKey])
    /\ pc' = "await"
    /\ UNCHANGED <<req, query, iters, resp, paginationStr, sortKey>>
    /\ UNCHANGED <<resourceVars, authVars, substVars>>

\* lines 594-640: the upstream answer; getResultFields reads Title[0] of each
\* record and panics on a record without title (gin recovers with 500)
Respond ==
    /\ pc = "await"
    /\ \E u \in Replies :
          resp' = IF u.kind = "error" THEN StringResp(u.status, "upstream")
                  ELSE IF u.kind = "badxml" THEN JSONResp(500, "xml", 0, 0)
                  ELSE IF \E i \in 1..Len(u.records) : ~u.records[i]
                       THEN StringResp(500, "")
                  ELSE JSONResp(200, "", Len(u.records), u.count)
    /\ pc' = "done"
    /\ UNCHANGED <<req, query, iters, parsedQ, gets, ran, paginationStr, sortKey, qURL>>
    /\ UNCHANGED <<resourceVars, authVars, substVars>>

Next ==
    \/ RejectBody
    \/ Receive
    \/ Validate
    \/ JournalCheck
    \/ ConvertDateIter
    \/ ConvertDateDone
    \/ Substitute
    \/ FilterCheck
    \/ Augment
    \/ Get
    \/ Respond

Spec == Init /\ [][Next]_vars

(***************************************************************************)
(* The record mapper and the resource handler.                             *)
(***************************************************************************)
\* the substrings that getResultFields looks for in an identifier value
sHttp == <<"h","t","t","p">>
sApiOverdrive == <<"a","p","i",".","o","v","e","r","d","r","i","v","e">>
sInstitution == <<"[","i","n","s","t","i","t","u","t","i","o","n","]">>
sHathitrust == <<"h","a","t","h","i","t","r","u","s","t">>
sProquest == <<"p","r","o","q","u","e","s","t">>
sGoogle == <<"g","o","o","g","l","e">>
sVlebooks == <<"v","l","e","b","o","o","k","s">>
sCanadiana == <<"c","a","n","a","d","i","a","n","a">>
sOverdrive == <<"o","v","e","r","d","r","i","v","e">>
\* line 889: the prefix of the worldcat_url value
sOclcURL == <<"h","t","t","p",":","/","/","w","o","r","l","d","c","a","t",".","o","r","g","/","o","c","l","c","/">>

\* v4api.RecordField; a member the code leaves out is the empty string
RecordField(name, type, label, value, visibility, display, provider, citationPart) ==
    [Name |-> name, Type |-> type, Label |-> label, Value |-> value,
     Visibility |-> visibility, Display |-> display, Provider |-> provider,
     CitationPart |-> citationPart]

\* the character references that html.UnescapeString replaces, as far as the
\* creator names of the model use them
Entities ==
    { [name |-> <<"&","a","m","p",";">>, text |-> <<"&">>],
      [name |-> <<"&","a","p","o","s",";">>, text |-> <<"'">>],
      [name |-> <<"&","#","3","9",";">>, text |-> <<"'">>],
      [name |-> <<"&","q","u","o","t",";">>, text |-> <<"\"">>],
      [name |-> <<"&","l","t",";">>, text |-> <<"<">>],
      [name |-> <<"&","g","t",";">>, text |-> <<">">>] }

\* html.UnescapeString: one pass from left to right; the text that replaces a
\* character reference is not read again
RECURSIVE UnescapeString(_)
UnescapeString(s) ==
    IF s = <<>> THEN <<>>
    ELSE IF \E e \in Entities : HasPrefix(s, e.name)
    THEN LET e == CHOOSE x \in Entities : HasPrefix(s, x.name)
         IN  e.text \o UnescapeString(SubSeq(s, Len(e.name) + 1, Len(s)))
    ELSE <<Head(s)>> \o UnescapeString(Tail(s))

\* strings.Join
RECURSIVE Join(_, _)
Join(elems, sep) ==
    IF elems = <<>> THEN <<>>
    ELSE IF Len(elems) = 1 THEN elems[1]
    ELSE elems[1] \o sep \o Join(Tail(elems), sep)

\* skipURL without the institution placeholder
skipURL_OverdriveOnly(val) == Contains(val, sApiOverdrive)

\* getResultFields, line 845: a URL that is dropped as invalid
skipURL(val) == Contains(val, sApiOverdrive) \/ Contains(val, sInstitution)

\* providerOf with proquest tested before hathitrust
providerOf_ProquestFirst(val) ==
    IF Contains(val, sProquest) THEN "proquest"
    ELSE IF Contains(val, sHathitrust) THEN "hathitrust"
    ELSE IF Contains(val, sGoogle) THEN "google"
    ELSE IF Contains(val, sVlebooks) THEN "vlebooks"
    ELSE IF Contains(val, sCanadiana) THEN "canadiana"
    ELSE IF Contains(val, sOverdrive) THEN "overdrive"
    ELSE "worldcat"

\* getResultFields, lines 849-870: the provider of an access URL
providerOf(val) ==
    IF Contains(val, sHathitrust) THEN "hathitrust"
    ELSE IF Contains(val, sProquest) THEN "proquest"
    ELSE IF Contains(val, sGoogle) THEN "google"
    ELSE IF Contains(val, sVlebooks) THEN "vlebooks"
    ELSE IF Contains(val, sCanadiana) THEN "canadiana"
    ELSE IF Contains(val, sOverdrive) THEN "overdrive"
    ELSE "worldcat"

\* getResultFields, lines 840-873: the fields of one value of the ISBN list
identifierFields(val) ==
    IF ~Contains(val, sHttp)
    THEN <<RecordField("isbn", "isbn", "ISBN", val, "", "", "", "serial_number")>>
    ELSE IF skipURL(val)
    THEN <<>>
    ELSE <<RecordField("access_url", "url", "Online Access", val, "", "", providerOf(val), "")>>

\* getResultFields, lines 839-874: the loop over the ISBN list
RECURSIVE isbnLoop(_)
isbnLoop(vals) ==
    IF vals = <<>> THEN <<>>
    ELSE identifierFields(Head(vals)) \o isbnLoop(Tail(vals))

\* getResultFields, lines 892-899: one author field per creator or contributor
RECURSIVE authorLoop(_)
authorLoop(vals) ==
    IF vals = <<>> THEN <<>>
    ELSE <<RecordField("author", "author", "Author", UnescapeString(Head(vals)),
                       "", "", "", "author")>>
         \o authorLoop(Tail(vals))

\* getResultFields, lines 901-904
RECURSIVE subjectLoop(_)
subjectLoop(vals) ==
    IF vals = <<>> THEN <<>>
    ELSE <<RecordField("subject", "subject", "Subject", Head(vals),
                       "detailed", "", "", "subject")>>
         \o subjectLoop(Tail(vals))

\* getResultFields, lines 821-923. Title[0] of a record without title is an
\* index out of range: the function panics and returns nothing. The flag
\* `online` is set in the loop and read by two branches whose bodies are
\* comments (lines 876-886); the loops over Publishers, Formats and Type
\* (lines 910-920) assign f and append nothing.
getResultFields(wcRec) ==
    IF wcRec.Title = <<>>
    THEN [panic |-> TRUE, fields |-> <<>>]
    ELSE [panic |-> FALSE,
          fields |->
             <<RecordField("id", "identifier", "Identifier", wcRec.ID, "", "optional", "", "id"),
               RecordField("publication_date", "publication_date", "Publication Date",
                           wcRec.Date, "", "", "", "published_date"),
               RecordField("language", "language", "Language", wcRec.Language,
                           "detailed", "", "", "language"),
               RecordField("title", "title", "Title", wcRec.Title[1], "", "", "", "title")>>
             \o isbnLoop(wcRec.ISBN)
             \o <<RecordField("worldcat_url", "url", "More Details", sOclcURL \o wcRec.ID,
                              "detailed", "", "worldcat", "")>>
             \o authorLoop(wcRec.Creator)
             \o authorLoop(wcRec.Contributor)
             \o subjectLoop(wcRec.Subjects)
             \o <<RecordField("description", "summary", "Description",
                              Join(wcRec.Description, sSP), "", "", "", "abstract")>>]

\* getResource, lines 696-701: the two format fields; both take the general
\* format of the lookup
formatFields(reply) ==
    <<RecordField("general_format", "format", "General Format", reply.GeneralFormat,
                  "", "optional", "", ""),
      RecordField("specific_format", "format", "Specific Format", reply.GeneralFormat,
                  "", "optional", "", "")>>

\* values of upstream records
vIsbn == <<"0","3","9","4","5","0","2","9","4","9">>
uHathi == <<"h","t","t","p",":","/","/","c","a","t","a","l","o","g",".","h","a","t","h","i","t","r","u","s","t",".","o","r","g","/","1">>
uHathiProquest == <<"h","t","t","p",":","/","/","h","a","t","h","i","t","r","u","s","t",".","o","r","g","/","p","r","o","q","u","e","s","t","/","1">>
uProquest == <<"h","t","t","p",":","/","/","s","e","a","r","c","h",".","p","r","o","q","u","e","s","t",".","c","o","m","/","1">>
uGoogle == <<"h","t","t","p",":","/","/","b","o","o","k","s",".","g","o","o","g","l","e",".","c","o","m","/","1">>
uVlebooks == <<"h","t","t","p",":","/","/","w","w","w",".","v","l","e","b","o","o","k","s",".","c","o","m","/","1">>
uCanadiana == <<"h","t","t","p",":","/","/","w","w","w",".","c","a","n","a","d","i","a","n","a",".","c","a","/","1">>
uOverdrive == <<"h","t","t","p",":","/","/","l","i","n","k",".","o","v","e","r","d","r","i","v","e",".","c","o","m","/","1">>
uApiOverdrive == <<"h","t","t","p",":","/","/","a","p","i",".","o","v","e","r","d","r","i","v","e",".","c","o","m","/","1">>
uInstitution == <<"h","t","t","p",":","/","/","[","i","n","s","t","i","t","u","t","i","o","n","]",".","e","x","a","m","p","l","e",".","o","r","g","/","1">>
uOther == <<"h","t","t","p","s",":","/","/","e","x","a","m","p","l","e",".","o","r","g","/","1">>
vID == <<"4","2">>
vEng == <<"e","n","g">>
vTitle == <<"T","a","l","e","s">>
vSubtitle == <<"P","o","e","m","s">>
vAmpApos == <<"O","&","a","m","p",";","a","p","o","s",";","B","r","i","e","n">>
vEditor == <<"E","d"," ","&","a","m","p",";"," ","C","o">>
vDesc1 == <<"S","h","o","r","t">>
vDesc2 == <<"s","t","o","r","i","e","s">>
vSubject == <<"F","i","c","t","i","o","n">>
vPublisher == <<"K","n","o","p","f">>
vFormat == <<"p","r","i","n","t">>
vType == <<"T","e","x","t">>
vBook == <<"B","o","o","k">>
vPrintBook == <<"P","r","i","n","t","B","o","o","k">>

IdentifierValues ==
    { vIsbn, uHathi, uHathiProquest, uProquest, uGoogle, uVlebooks, uCanadiana,
      uOverdrive, uApiOverdrive, uInstitution, uOther }

\* the identifier lists of at most MaxIdentifiers values
IdentifierLists == UNION {[1..n -> IdentifierValues] : n \in 0..MaxIdentifiers}

\* wcRecord, lines 444-458, as xml.Unmarshal fills it: an element that the
\* document lacks leaves the empty string or the empty list
BaseRecord ==
    [ID |-> vID, Date |-> y1987, Language |-> vEng, ISBN |-> <<>>,
     Creator |-> <<vPoe>>, Contributor |-> <<>>, Description |-> <<vDesc1>>,
     Subjects |-> <<vSubject>>, Title |-> <<vTitle>>, Type |-> <<>>,
     Formats |-> <<>>, Publishers |-> <<>>]

\* a full record with every identifier list
IdentifierRecords == {[BaseRecord EXCEPT !.ISBN = l] : l \in IdentifierLists}

\* records with each element present or absent
PresenceRecords ==
    [ID : {vID}, Date : {<<>>, y1987}, Language : {<<>>, vEng},
     ISBN : {<<>>, <<uOther, vIsbn>>},
     Creator : {<<>>, <<vPoe, vAmpApos>>}, Contributor : {<<>>, <<vEditor>>},
     Description : {<<>>, <<vDesc1>>, <<vDesc1, vDesc2>>},
     Subjects : {<<>>, <<vSubject>>},
     Title : {<<>>, <<vTitle>>, <<vTitle, vSubtitle>>},
     Type : {<<>>, <<vType>>}, Formats : {<<>>, <<vFormat>>},
     Publishers : {<<>>, <<vPublisher>>}]

Records == IdentifierRecords \cup PresenceRecords

\* the outcomes of the GET of the record (apiGet, xml.Unmarshal)
ResourceReplies ==
    {[kind |-> "error", status |-> s, rec |-> BaseRecord] : s \in ErrStatuses}
    \cup {[kind |-> "badxml", status |-> 200, rec |-> BaseRecord]}
    \cup {[kind |-> "ok", status |-> 200, rec |-> r] : r \in Records}

\* the outcomes of the format lookup (getGeneralFormat, json.Unmarshal)
FormatReplies ==
    {[kind |-> k, GeneralFormat |-> <<>>, SpecificFormat |-> <<>>] : k \in {"error", "badjson"}}
    \cup {[kind |-> "ok", GeneralFormat |-> g, SpecificFormat |-> s] :
             g \in {vBook}, s \in {vBook, vPrintBook}}

\* getResource, lines 653-661: the GET of the record; a failed request ends
\* the handler with the status of handleAPIResponse. Lines 663-670: a body
\* that is not a record ends it with 500.
Lookup ==
    /\ rpc = "idle"
    /\ \E u \in ResourceReplies :
          IF u.kind = "error"
          THEN /\ resourceResp' = [code |-> u.status, kind |-> "string", fields |-> <<>>]
               /\ rpc' = "done"
               /\ UNCHANGED wcResp
          ELSE IF u.kind = "badxml"
          THEN /\ resourceResp' = [code |-> 500, kind |-> "string", fields |-> <<>>]
               /\ rpc' = "done"
               /\ UNCHANGED wcResp
          ELSE /\ wcResp' = u.rec
               /\ rpc' = "fields"
               /\ UNCHANGED resourceResp
    /\ UNCHANGED <<jsonResp, fmtJSON>>
    /\ UNCHANGED <<searchVars, authVars, substVars>>

\* getResource, line 675; a panic of getResultFields is recovered by gin
\* (gin.Default, main.go) and answered with 500
ResultFields ==
    /\ rpc = "fields"
    /\ LET r == getResultFields(wcResp)
       IN  IF r.panic
           THEN /\ resourceResp' = [code |-> 500, kind |-> "panic", fields |-> <<>>]
                /\ rpc' = "done"
                /\ UNCHANGED jsonResp
           ELSE /\ jsonResp' = r.fields
                /\ rpc' = "auth"
                /\ UNCHANGED resourceResp
    /\ UNCHANGED <<wcResp, fmtJSON>>
    /\ UNCHANGED <<searchVars, authVars, substVars>>

\* getResource, lines 677-683: the token refresh; when it fails the fields of
\* the record are the answer
RefreshAuth ==
    /\ rpc = "auth"
    /\ \E ok \in BOOLEAN :
          IF ok
          THEN /\ rpc' = "format"
               /\ UNCHANGED resourceResp
          ELSE /\ resourceResp' = [code |-> 200, kind |-> "json", fields |-> jsonResp]
               /\ rpc' = "done"
    /\ UNCHANGED <<wcResp, jsonResp, fmtJSON>>
    /\ UNCHANGED <<searchVars, authVars, substVars>>

\* getResource, lines 684-706: the format lookup and the answer
GeneralFormat ==
    /\ rpc = "format"
    /\ \E u \in FormatReplies :
          /\ fmtJSON' = u
          /\ jsonResp' = IF u.kind = "ok" THEN jsonResp \o formatFields(u) ELSE jsonResp
    /\ resourceResp' = [code |-> 200, kind |-> "json", fields |-> jsonResp']
    /\ rpc' = "done"
    /\ UNCHANGED wcResp
    /\ UNCHANGED <<searchVars, authVars, substVars>>

NextResource ==
    \/ Lookup
    \/ ResultFields
    \/ RefreshAuth
    \/ GeneralFormat

SpecResource == Init /\ [][NextResource]_vars

(***************************************************************************)
(* The token cache of the resource handler.  Tokens are numbers, 0 the     *)
(* empty string; times are ticks, 0 the zero time.  svc.OCLC is read and   *)
(* written without a lock: the steps of concurrent lookups interleave.     *)
(***************************************************************************)
\* refreshOCLCAuth, line 723: svc.OCLC.Token == "" || svc.OCLC.Expires.After(now)
needsToken(o, t) == o.Token = NoToken \/ o.Expires > t

\* clearedAt with the token left in the cache
clearedAt_KeepToken(o, t) == [o EXCEPT !.Expires = t]

\* oclcTokenRequest, lines 227-228, and getGeneralFormat, lines 712-713: the
\* token is cleared and the expiry set to time.Now()
clearedAt(o, t) == [Token |-> NoToken, Expires |-> t]

\* getResource, lines 653-675: the record is fetched and mapped; a failed
\* GET, a body that is no record and a panic of the mapper end the handler
Primary(p) ==
    /\ lookup[p].pc = "idle"
    /\ \E ok \in BOOLEAN :
          lookup' = [lookup EXCEPT ![p].pc = IF ok THEN "auth" ELSE "done"]
    /\ UNCHANGED <<now, oclc, issued, failedTokens>>
    /\ UNCHANGED <<searchVars, resourceVars, substVars>>

\* refreshOCLCAuth, lines 721-723 and 730-733: with a token that needs no
\* refresh the function returns nil
RefreshCheck(p) ==
    /\ lookup[p].pc = "auth"
    /\ IF needsToken(oclc, now)
       THEN lookup' = [lookup EXCEPT ![p].pc = "request"]
       ELSE lookup' = [lookup EXCEPT ![p].pc = "format", ![p].refreshed = oclc.Token]
    /\ UNCHANGED <<now, oclc, issued, failedTokens>>
    /\ UNCHANGED <<searchVars, resourceVars, substVars>>

\* oclcTokenRequest, lines 227-232: the cache is cleared, then the POST is sent
TokenRequest(p) ==
    /\ lookup[p].pc = "request"
    /\ oclc' = clearedAt(oclc, now)
    /\ lookup' = [lookup EXCEPT ![p].pc = "token"]
    /\ UNCHANGED <<now, issued, failedTokens>>
    /\ UNCHANGED <<searchVars, resourceVars, substVars>>

\* oclcTokenRequest, lines 233-259: a failed POST is the error of the refresh
\* and getResource answers with the record alone (lines 678-683). Of any
\* other answer the token and the expiry are stored: a new token, or the
\* empty string when the body is no JSON or has no access_token (the parse
\* error of line 249 is only logged), with whatever time.Parse made of
\* expires_at.
TokenReply(p) ==
    /\ lookup[p].pc = "token"
    /\ \/ /\ lookup' = [lookup EXCEPT ![p].pc = "done"]
          /\ UNCHANGED <<oclc, issued>>
       \/ \E e \in ExpiryTimes :
             /\ oclc' = [Token |-> NoToken, Expires |-> e]
             /\ lookup' = [lookup EXCEPT ![p].pc = "format", ![p].refreshed = NoToken]
             /\ UNCHANGED issued
       \/ /\ issued < MaxTokens
          /\ \E e \in ExpiryTimes :
                /\ oclc' = [Token |-> issued + 1, Expires |-> e]
                /\ lookup' = [lookup EXCEPT ![p].pc = "format",
                                            ![p].refreshed = issued + 1]
                /\ issued' = issued + 1
    /\ UNCHANGED <<now, failedTokens>>
    /\ UNCHANGED <<searchVars, resourceVars, substVars>>

\* getGeneralFormat, line 710: the GET of the format carries the token that
\* is in the cache at this moment (apiGet, service.go 207-210: no header for
\* the empty token)
FormatRequest(p) ==
    /\ lookup[p].pc = "format"
    /\ lookup' = [lookup EXCEPT ![p].pc = "lookup", ![p].bearer = oclc.Token]
    /\ UNCHANGED <<now, oclc, issued, failedTokens>>
    /\ UNCHANGED <<searchVars, resourceVars, substVars>>

\* getGeneralFormat, lines 711-716: a failed GET clears the cache; getResource
\* answers 200 either way (lines 685-706) and the locals of the call are gone
FormatReply(p) ==
    /\ lookup[p].pc = "lookup"
    /\ \E ok \in BOOLEAN :
          IF ok
          THEN UNCHANGED <<oclc, failedTokens>>
          ELSE /\ oclc' = clearedAt(oclc, now)
               /\ failedTokens' = failedTokens \cup ({lookup[p].bearer} \ {NoToken})
    /\ lookup' = [lookup EXCEPT ![p] = [NoLookup EXCEPT !.pc = "done"]]
    /\ UNCHANGED <<now, issued>>
    /\ UNCHANGED <<searchVars, resourceVars, substVars>>

\* the handler has returned; the next request begins
NextLookup(p) ==
    /\ lookup[p].pc = "done"
    /\ lookup' = [lookup EXCEPT ![p] = NoLookup]
    /\ UNCHANGED <<now, oclc, issued, failedTokens>>
    /\ UNCHANGED <<searchVars, resourceVars, substVars>>

\* time.Now() moves on
Tick ==
    /\ now < MaxTime
    /\ now' = now + 1
    /\ UNCHANGED <<oclc, lookup, issued, failedTokens>>
    /\ UNCHANGED <<searchVars, resourceVars, substVars>>

NextAuth ==
    \/ \E p \in Lookups : Primary(p)
    \/ \E p \in Lookups : RefreshCheck(p)
    \/ \E p \in Lookups : TokenRequest(p)
    \/ \E p \in Lookups : TokenReply(p)
    \/ \E p \in Lookups : FormatRequest(p)
    \/ \E p \in Lookups : FormatReply(p)
    \/ \E p \in Lookups : NextLookup(p)
    \/ Tick

SpecAuth == Init /\ [][NextAuth]_vars

(***************************************************************************)
(* Prefix substitution as a function of any text.                          *)
(***************************************************************************)
\* pieces of text: the five markers, braces, a space, a value, and the two
\* halves of a marker that a brace between them keeps apart
Pieces ==
    { mKeyword, mTitle, mAuthor, mSubject, mIdentifier, sLB, sRB, sSP, vCats,
      <<"k","e","y">>, <<"w","o","r","d",":">> }

\* the texts of exactly n pieces
RECURSIVE PieceTexts(_)
PieceTexts(n) ==
    IF n = 0 THEN {<<>>}
    ELSE {x[1] \o x[2] : x \in PieceTexts(n - 1) \X Pieces}

SubstInputs == UNION {PieceTexts(n) : n \in 0..MaxPieces}

InitSubstitute ==
    /\ InitHandlers
    /\ text \in SubstInputs
    /\ applied = <<>>

\* search, lines 550-557, applied to the text and then to its own result
ApplySubstitution ==
    /\ Len(applied) < 2
    /\ applied' = Append(applied,
                         substitutePrefixes(IF applied = <<>> THEN text
                                            ELSE applied[Len(applied)]))
    /\ UNCHANGED text
    /\ UNCHANGED <<searchVars, resourceVars, authVars>>

NextSubstitute ==
    \/ ApplySubstitution

SpecSubstitute == InitSubstitute /\ [][NextSubstitute]_vars

(***************************************************************************)
(* Properties of the search handler.                                       *)
(***************************************************************************)
\* the translation steps named by the claims on the order of the handler
TranslationSteps == {"unsupported", "convertDate", "substitute", "minContent"}

\* the query passes every check that precedes the filter check
PassesTranslation(q) ==
    /\ ~Contains(q, mJournal)
    /\ convertDateCriteria(q).err = ""
    /\ ~isDegenerate(substitutePrefixes(convertDateCriteria(q).query))

\* C1 (as stated): for every grammar-valid request with a non-empty filters
\* list the handler answers 200 with zero groups and total 0, runs none of the
\* translation steps and sends no upstream GET, whatever the query holds.
C1_FiltersSkipTranslation ==
    (pc = "done" /\ req.valid /\ req.filters > 0) =>
        /\ resp = JSONResp(200, "", 0, 0)
        /\ ran \cap TranslationSteps = {}
        /\ gets = <<>>

\* C1 (amended): for every grammar-valid request with a non-empty filters list
\* no upstream GET is sent; the unsupported-criterion check, date conversion and
\* the minimum-content check run before the filter check, so the answer is 200
\* with zero groups and total 0 exactly when the query passes them, 501 for a
\* journal_title criterion, and 400 or 501 for the other queries they reject.
C1_FiltersAfterTranslation ==
    (req.valid /\ req.filters > 0) =>
        /\ gets = <<>>
        /\ pc \notin {"augment", "get", "await"}
        /\ pc = "done" =>
              /\ PassesTranslation(req.query) <=> resp = JSONResp(200, "", 0, 0)
              /\ Contains(req.query, mJournal) => resp.code = 501
              /\ resp.code \in {200, 400, 501}
              /\ resp.code = 200 => TranslationSteps \subseteq ran

\* C1 witness: a request with filters and a date criterion answered by the
\* filter short-circuit
C1_Witness ==
    /\ pc = "done"
    /\ req.filters > 0
    /\ Contains(req.query, mDate)
    /\ "filter" \in ran
    /\ resp = JSONResp(200, "", 0, 0)

\* the field markers other than "date:"
OtherMarkers ==
    {mKeyword, mTitle, mAuthor, mSubject, mIdentifier, mJournal, mFulltext,
     mSeries, mFilter}

\* the query's only criteria are date criteria, all of them well formed
DateOnly(q) ==
    /\ Contains(q, mDate)
    /\ \A m \in OtherMarkers : ~Contains(q, m)
    /\ convertDateCriteria(q).err = ""

\* C2 (as stated): a grammar-valid query whose only criteria are well-formed
\* date criteria causes no upstream request and is answered 200 with zero
\* groups, never with an error.
C2_DateOnlyEmptySuccess ==
    (req.valid /\ DateOnly(req.query)) =>
        /\ gets = <<>>
        /\ pc = "done" => (resp.code = 200 /\ resp.groups = 0)

\* the number of "date:" markers of the request's query
DateCriteria == Count(req.query, mDate)

\* the conversion loop has been left without an error
DatesConverted == pc = "substitute" \/ "substitute" \in ran

\* C3: for a query with n date criteria, every pass of the loop of
\* convertDateCriteria that does not fail removes exactly one "date:" marker
\* (passes made + markers left = n), the loop is left after n passes, and the
\* string it returns holds no "date:" marker.
C3_DateLoopTerminates ==
    /\ pc = "convertDate" => iters + Count(query, mDate) = DateCriteria
    /\ iters <= DateCriteria
    /\ DatesConverted => (iters = DateCriteria /\ ~Contains(query, mDate))
    /\ (pc = "substitute" /\ convertDateCriteria(req.query).err = "") =>
           parsedQ = convertDateCriteria(req.query).query

\* C3 witness: a query of two date criteria joined by OR, converted in two
\* passes
C3_Witness ==
    /\ pc = "substitute"
    /\ iters = 2
    /\ DateCriteria = 2
    /\ Contains(req.query, sOR)
    /\ ~Contains(parsedQ, mDate)

\* the translation of a range with lower bound a and upper bound b
RangeClause(a, b) == sYrGe \o a \o sAndYrLe \o b

\* C4 (as stated): a range criterion "date: {Y1 TO Y2}" with four-digit years
\* is translated to the range with lower bound Y1 and upper bound Y2.
C4_RangeUpperBound ==
    \A a \in ValidYears, b \in ValidYears :
        (pc = "substitute" /\ Contains(req.query, DateRange(a, b))) =>
            Contains(parsedQ, RangeClause(a, b))

\* the token is exactly four decimal digits
FourDigitYear(y) == Len(y) = 4 /\ \A i \in 1..4 : y[i] \in Digits

\* C5 (as stated): the endpoints of a range are validated independently: an
\* invalid Y1 fails with the starting-year error, a valid Y1 with an invalid Y2
\* fails with the ending-year error, and translation never succeeds when Y2 is
\* invalid.
C5_RangeEndpointsValidated ==
    \A a \in YearTokens, b \in YearTokens :
        (req.valid /\ req.query = DateRange(a, b)) =>
            /\ DatesConverted => FourDigitYear(b)
            /\ (pc = "done" /\ ~FourDigitYear(a)) =>
                   resp = StringResp(400, ErrStart)
            /\ (pc = "done" /\ FourDigitYear(a) /\ ~FourDigitYear(b)) =>
                   resp = StringResp(400, ErrEnd)

\* C6 (as stated): for the exact, AFTER and BEFORE shapes translation succeeds
\* only when the year token is exactly four digits; otherwise the handler
\* answers 400 with the four-digit-year error and sends no upstream request.
C6_YearExactlyFourDigits ==
    \A y \in YearTokens :
        (req.valid /\ req.query \in {DateExact(y), DateAfter(y), DateBefore(y)}
            /\ ~FourDigitYear(y)) =>
            /\ ~DatesConverted
            /\ gets = <<>>
            /\ pc = "done" => resp = StringResp(400, ErrYear)

\* the translated query is the keyword prefix alone or followed only by "*"
KeywordOnly(q) ==
    LET p == substitutePrefixes(convertDateCriteria(q).query)
    IN  /\ convertDateCriteria(q).err = ""
        /\ HasPrefix(p, pKw)
        /\ Trim(SubSeq(p, Len(pKw) + 1, Len(p))) \in {<<>>, sStar}

\* C7 (as stated): a query that reduces to the keyword prefix alone or to the
\* keyword prefix and a "*", with any white space inside the braces, is
\* answered with the minimum-query-length signal and never sent upstream.
C7_DegenerateRejected ==
    (req.valid /\ KeywordOnly(req.query)) =>
        /\ gets = <<>>
        /\ pc = "done" => resp = StringResp(501, MsgMinLen)

\* C8 (as stated): a query with any of the three unsupported markers (journal
\* title, full text, series) is answered 501, and neither date conversion nor
\* prefix substitution nor an upstream request is performed for it.
C8_UnsupportedRejected ==
    \A m \in {mJournal, mFulltext, mSeries} :
        (req.valid /\ Contains(req.query, m)) =>
            /\ gets = <<>>
            /\ ran \cap {"convertDate", "substitute"} = {}
            /\ pc = "done" => resp.code = 501

\* C9: every grammar-valid query with a "journal_title:" criterion is answered
\* 501 with the journal-title message, wherever the criterion sits and whatever
\* filters, dates or other criteria accompany it; no later step runs.
C9_JournalUnsupported ==
    (req.valid /\ Contains(req.query, mJournal)) =>
        /\ pc \in {"validate", "journal", "done"}
        /\ gets = <<>>
        /\ ran \subseteq {"validate", "unsupported"}
        /\ pc = "done" => resp = StringResp(501, MsgJournal)

\* C9 witness: a journal criterion behind a malformed date, sent with filters,
\* answered 501
C9_Witness ==
    /\ pc = "done"
    /\ req.filters > 0
    /\ Index(req.query, mJournal) > 0
    /\ Contains(req.query, DateExact(y87))
    /\ resp = StringResp(501, MsgJournal)

\* the translated query before identifier augmentation
Translated == substitutePrefixes(query)

\* the text behind the keyword prefix
KeywordValue(q) == Trim(SubSeq(q, Len(pKw) + 1, Len(q)))

\* exactly one field clause, a keyword clause, with an integer value
NumericKeywordQuery(q) ==
    /\ Count(q, sSrw) = 1
    /\ HasPrefix(q, pKw)
    /\ AtoiOk(KeywordValue(q))

Augmented ==
    IF NumericKeywordQuery(Translated)
    THEN Translated \o sOrBn \o KeywordValue(Translated)
    ELSE Translated

\* C11: every query sent upstream ends with the three institution-exclusion
\* clauses, and the query of the GET is the translated query, with the
\* identifier clause when one was added, followed by those clauses.
C11_ExclusionsAppended ==
    /\ \A i \in 1..Len(gets) : HasSuffix(gets[i], sExclude)
    /\ pc = "await" => gets = <<Augmented \o sExclude>>
    /\ ("get" \in ran) <=> (Len(gets) = 1)

\* C11 witness: the GET for keyword: {123} carries the identifier clause and,
\* behind it, the exclusion clauses
C11_Witness ==
    /\ pc = "await"
    /\ gets = <<pKw \o sSP \o vInt \o sOrBn \o vInt \o sExclude>>

\* the GET of a request that passed translation has been sent
Sent == pc \in {"await", "done"} /\ Len(gets) = 1

\* C12: the upstream request carries the start offset s + 1 and the limit r
\* of a request with start s and row count r.
C12_OneBasedStart ==
    Sent =>
        /\ qURL[1].pagination.startRecord = req.pagination.start + 1
        /\ qURL[1].pagination.maximumRecords = req.pagination.rows

\* the sort keys that getSortKey can return
SortTokens == {"Author", "Author,,0", "Title", "Title,,0", "Date", "Date,,0", "relevance"}

\* C13: the sort key of the upstream request is one non-empty token that
\* depends on (sortID, order) only; relevance and every sort ID the service
\* does not know give "relevance" whatever the order, and the date sort
\* gives one token for asc and another for every other order.
C13_SortKeyTotal ==
    Sent =>
        /\ Len(qURL) = 1
        /\ qURL[1].sortKeys = getSortKey(req.sort)
        /\ qURL[1].sortKeys \in SortTokens
        /\ qURL[1].sortKeys # ""
        /\ req.sort.SortID \notin {SortAuthor, SortTitle, SortDate}
               => qURL[1].sortKeys = "relevance"
        /\ req.sort.SortID = SortDate
               => /\ (req.sort.Order = "asc") <=> (qURL[1].sortKeys = "Date")
                  /\ (req.sort.Order # "asc") <=> (qURL[1].sortKeys = "Date,,0")

\* C13 witness: a date sort in ascending order, sent as "Date"
C13_Witness ==
    /\ Sent
    /\ req.sort = [SortID |-> SortDate, Order |-> "asc"]
    /\ qURL[1].sortKeys = "Date"

(***************************************************************************)
(* Properties of the record mapper and the resource handler.               *)
(***************************************************************************)
\* getResultFields has returned: jsonResp is the list it returned
Returned == rpc \in {"auth", "format"}

\* the places of the fields with a name, and with a name and a value
Named(fields, name) == {i \in 1..Len(fields) : fields[i].Name = name}
NamedValued(fields, name, v) == {i \in Named(fields, name) : fields[i].Value = v}

\* the number of places of a list that hold v
Occurrences(list, v) == Cardinality({i \in 1..Len(list) : list[i] = v})

\* C14: for a record without title the resource handler answers 200 with the
\* other fields of the record and without a title field.
C14_MissingTitleTolerated ==
    (rpc = "done" /\ wcResp # NoRecord /\ wcResp.Title = <<>>) =>
        /\ resourceResp.code = 200
        /\ Named(resourceResp.fields, "id") # {}
        /\ Named(resourceResp.fields, "title") = {}

\* the slot of a field in the order of the specification
Slot(name) ==
    CASE name = "id" -> 1
      [] name = "publication_date" -> 2
      [] name = "language" -> 3
      [] name = "title" -> 4
      [] name = "isbn" -> 5
      [] name = "access_url" -> 6
      [] name = "availability" -> 7
      [] name = "author" -> 8
      [] name = "subject" -> 9
      [] name = "description" -> 10
      [] name = "publisher" -> 11
      [] name = "format" -> 12
      [] name = "type" -> 13
      [] OTHER -> 0

\* C15: the fields of every list the mapper returns are in slot order; in
\* particular no access-link field stands before an ISBN field.
C15_FixedSlotOrder ==
    Returned =>
        \A i, j \in 1..Len(jsonResp) :
            (i < j /\ Slot(jsonResp[i].Name) > 0 /\ Slot(jsonResp[j].Name) > 0)
                => Slot(jsonResp[i].Name) <= Slot(jsonResp[j].Name)

\* C16: a record without date, language or description gets no
\* publication_date, language or description field, and no field of the
\* list has an empty value.
C16_NoFieldForAbsentValue ==
    Returned =>
        /\ wcResp.Date = <<>> => Named(jsonResp, "publication_date") = {}
        /\ wcResp.Language = <<>> => Named(jsonResp, "language") = {}
        /\ wcResp.Description = <<>> => Named(jsonResp, "description") = {}
        /\ \A i \in 1..Len(jsonResp) : jsonResp[i].Value # <<>>

\* C17: every list the mapper returns has exactly one availability field;
\* its value is "Online" when the list has an access-link field and
\* "By Request" when it has none.
C17_OneAvailabilityField ==
    Returned =>
        /\ Cardinality(Named(jsonResp, "availability")) = 1
        /\ \A i \in Named(jsonResp, "availability") :
              jsonResp[i].Value =
                 IF Named(jsonResp, "access_url") # {}
                 THEN <<"O","n","l","i","n","e">>
                 ELSE <<"B","y"," ","R","e","q","u","e","s","t">>

\* the provider table of the specification, in its order
ProviderTable ==
    << [sub |-> sHathitrust, tag |-> "hathitrust"],
       [sub |-> sProquest, tag |-> "proquest"],
       [sub |-> sGoogle, tag |-> "google"],
       [sub |-> sVlebooks, tag |-> "vlebooks"],
       [sub |-> sCanadiana, tag |-> "canadiana"],
       [sub |-> sOverdrive, tag |-> "overdrive"] >>

\* the tag of the first row of the table that the URL matches
FirstMatch(url) ==
    LET hits == {k \in 1..Len(ProviderTable) : Contains(url, ProviderTable[k].sub)}
    IN  IF hits = {} THEN "worldcat"
        ELSE ProviderTable[CHOOSE k \in hits : \A h \in hits : k <= h].tag

\* C18: every access-link field has the provider tag of the first row of the
\* provider table that its URL matches, and the tag worldcat when no row
\* matches; a URL with hathitrust.org is tagged hathitrust.
C18_ProviderFirstMatch ==
    Returned =>
        \A i \in Named(jsonResp, "access_url") :
            /\ jsonResp[i].Provider = FirstMatch(jsonResp[i].Value)
            /\ Contains(jsonResp[i].Value, sHathitrust \o <<".","o","r","g">>)
                  => jsonResp[i].Provider = "hathitrust"

\* C18 witness: a URL with hathitrust.org and proquest is tagged hathitrust,
\* next to a URL of no provider tagged worldcat
C18_Witness ==
    /\ Returned
    /\ wcResp.ISBN = <<uHathiProquest, uOther>>
    /\ \E i \in Named(jsonResp, "access_url") :
          jsonResp[i].Value = uHathiProquest /\ jsonResp[i].Provider = "hathitrust"
    /\ \E i \in Named(jsonResp, "access_url") :
          jsonResp[i].Value = uOther /\ jsonResp[i].Provider = "worldcat"

\* the values of the identifier list and of the ISBN and access-link fields
IdentifierLike ==
    {wcResp.ISBN[i] : i \in 1..Len(wcResp.ISBN)}
    \cup {jsonResp[i].Value : i \in Named(jsonResp, "isbn") \cup Named(jsonResp, "access_url")}

\* C19: a value of the identifier list that is not a URL gives one ISBN field
\* and no link; a URL with the institution placeholder or an overdrive API
\* link gives no field; any other URL gives one access-link field and no
\* ISBN field. ISBN and access-link fields come from nowhere else.
C19_OneOutcomePerIdentifier ==
    Returned =>
        \A v \in IdentifierLike :
            LET n == Occurrences(wcResp.ISBN, v)
                url == Contains(v, sHttp)
                invalid == Contains(v, sInstitution) \/ Contains(v, sApiOverdrive)
            IN  /\ Cardinality(NamedValued(jsonResp, "isbn", v)) = (IF url THEN 0 ELSE n)
                /\ Cardinality(NamedValued(jsonResp, "access_url", v))
                      = (IF url /\ ~invalid THEN n ELSE 0)

\* C19 witness: of an institution placeholder URL and an ISBN, only the ISBN
\* is in the list
C19_Witness ==
    /\ Returned
    /\ wcResp.ISBN = <<uInstitution, vIsbn>>
    /\ Cardinality(Named(jsonResp, "isbn")) = 1
    /\ Named(jsonResp, "access_url") = {}

\* the values of a list
Range(list) == {list[i] : i \in 1..Len(list)}

\* C20: the answer of the resource lookup has a publisher, format and type
\* field with a value of the record whenever the record has such values.
C20_PublisherFormatType ==
    (rpc = "done" /\ resourceResp.code = 200 /\ resourceResp.kind = "json") =>
        /\ wcResp.Publishers # <<>> =>
              \E i \in Named(resourceResp.fields, "publisher") :
                  resourceResp.fields[i].Value \in Range(wcResp.Publishers)
        /\ wcResp.Formats # <<>> =>
              \E i \in Named(resourceResp.fields, "format") :
                  resourceResp.fields[i].Value \in Range(wcResp.Formats)
        /\ wcResp.Type # <<>> =>
              \E i \in Named(resourceResp.fields, "type") :
                  resourceResp.fields[i].Value \in Range(wcResp.Type)

\* the list that getResultFields returned for the record of the lookup
PrimaryFields == getResultFields(wcResp).fields

\* C21: once the record has been fetched and parsed the answer is 200 and
\* begins with the fields of the record in their order; when the token
\* refresh or the format lookup fails, or the lookup's body is not JSON, the
\* answer is these fields alone.
C21_EnrichmentNonFatal ==
    (rpc = "done" /\ wcResp # NoRecord) =>
        /\ resourceResp.code = 200
        /\ resourceResp.kind = "json"
        /\ Len(resourceResp.fields) >= Len(PrimaryFields)
        /\ SubSeq(resourceResp.fields, 1, Len(PrimaryFields)) = PrimaryFields
        /\ fmtJSON.kind # "ok" =>
              /\ resourceResp.fields = PrimaryFields
              /\ Named(resourceResp.fields, "general_format") = {}
              /\ Named(resourceResp.fields, "specific_format") = {}

\* the text O'Brien
vOBrien == <<"O","'","B","r","i","e","n">>

\* C23: no author field holds the text of a character reference, and the
\* creator O&amp;apos;Brien is emitted as O'Brien.
C23_CreatorFullyUnescaped ==
    Returned =>
        /\ \A i \in Named(jsonResp, "author") :
              \A e \in Entities : ~Contains(jsonResp[i].Value, e.name)
        /\ (\E k \in 1..Len(wcResp.Creator) : wcResp.Creator[k] = vAmpApos)
              => NamedValued(jsonResp, "author", vOBrien) # {}

\* C24: after a format lookup that succeeded the answer ends with a
\* general_format field with the general format of the lookup and a
\* specific_format field with its specific format.
C24_FormatFieldsCarryLookup ==
    (rpc = "done" /\ fmtJSON.kind = "ok") =>
        LET n == Len(resourceResp.fields)
        IN  /\ n >= 2
            /\ resourceResp.fields[n - 1].Name = "general_format"
            /\ resourceResp.fields[n - 1].Value = fmtJSON.GeneralFormat
            /\ resourceResp.fields[n].Name = "specific_format"
            /\ resourceResp.fields[n].Value = fmtJSON.SpecificFormat

(***************************************************************************)
(* Properties of the order of the search handler.                          *)
(***************************************************************************)
\* the checks that precede the upstream GET
ChecksBeforeGet == {"validate", "unsupported", "convertDate", "minContent", "filter"}

\* at most one GET is sent, and only for a request that passed every check;
\* a request with filters gets none
GetAfterChecks ==
    /\ Len(gets) <= 1
    /\ gets # <<>> =>
          /\ ChecksBeforeGet \subseteq ran
          /\ req.valid
          /\ ~Contains(req.query, mJournal)
          /\ convertDateCriteria(req.query).err = ""
          /\ Translated \notin {pKw, pKwStar}
          /\ req.filters = 0
          /\ ~Contains(req.query, mFilter)

\* C27 (as stated): at most one GET is sent, after validation, the
\* unsupported-criterion check, date conversion, the minimum-content check
\* and the filter check have passed; no run that ends in a 400 or 501 answer
\* or in the filter short-circuit has sent a GET.
C27_NoGetBefore400Or501 ==
    /\ GetAfterChecks
    /\ (pc = "done" /\ resp.code \in {400, 501}) => gets = <<>>

\* C27 (amended): at most one GET is sent, after validation, the
\* unsupported-criterion check, date conversion, the minimum-content check
\* and the filter check have passed; no run that one of these checks ends
\* with 400 or 501, and no run that ends in the filter short-circuit, has
\* sent a GET. A 400 or 501 answer after the GET is the status of the failed
\* GET itself, relayed to the caller.
C27_GetAfterChecksOrRelay ==
    /\ GetAfterChecks
    /\ (pc = "done" /\ resp.code \in {400, 501}) =>
          \/ gets = <<>> /\ resp.msg # "upstream"
          \/ Len(gets) = 1 /\ resp = StringResp(resp.code, "upstream")
    /\ (pc = "done" /\ resp.msg \in {MsgMalformed, MsgJournal, MsgMinLen,
                                    ErrYear, ErrStart, ErrEnd}) => gets = <<>>

\* C27 witness: the one GET of a request that passed every check failed, and
\* the handler answered with the status 400 of that failure
C27_Witness ==
    /\ pc = "done"
    /\ Len(gets) = 1
    /\ ChecksBeforeGet \subseteq ran
    /\ resp = StringResp(400, "upstream")

\* the place (from 1) of the first closing brace behind the leftmost marker
CloseAt(q) ==
    LET from == Index(q, mDate) + 1
    IN  CHOOSE k \in from..Len(q) :
            q[k] = "}" /\ \A j \in from..(k - 1) : q[j] # "}"

\* q2 is q with its leftmost date fragment replaced by one year clause: the
\* text before the marker and the text behind the closing brace are kept,
\* with the spaces at their ends trimmed and one space at each splice point
FrameKept(q, q2) ==
    LET before == Trim(SubSeq(q, 1, Index(q, mDate))) \o sSP
        behind == sSP \o Trim(SubSeq(q, CloseAt(q) + 1, Len(q)))
        clause == SubSeq(q2, Len(before) + 1, Len(q2) - Len(behind))
    IN  /\ Len(q2) >= Len(before) + Len(behind)
        /\ HasPrefix(q2, before)
        /\ HasSuffix(q2, behind)
        /\ \E p \in {sYrGt, sYrLt, sYrEq, sYrGe} : HasPrefix(clause, p)
        /\ \A m \in OtherMarkers \cup {mDate} : ~Contains(clause, m)
        /\ Count(q2, mDate) = Count(q, mDate) - 1
        /\ \A m \in OtherMarkers : Count(q2, m) = Count(q, m)

BareRangeBehind(q, connective) ==
    Contains(q, connective \o sSP \o sYrGe)

\* C30: in the query sent upstream no OR and no NOT has the lower bound of a
\* rewritten range as its operand: a range that follows a connective is one
\* clause of its own, so that the connective applies to both bounds.
C30_RangeSelfContained ==
    Sent =>
        /\ ~BareRangeBehind(gets[1], <<"O","R">>)
        /\ ~BareRangeBehind(gets[1], <<"N","O","T">>)

(***************************************************************************)
(* Properties of prefix substitution and of the token cache.               *)
(***************************************************************************)
\* the five markers that prefix substitution replaces
ReplacedMarkers == {mKeyword, mTitle, mAuthor, mSubject, mIdentifier}

\* C25: prefix substitution applied to its own result changes nothing, and
\* its result holds none of the five field markers.
C25_SubstitutionIdempotent ==
    /\ Len(applied) >= 1 => \A m \in ReplacedMarkers : ~Contains(applied[1], m)
    /\ Len(applied) = 2 => applied[2] = applied[1]

\* C25 witness: the two halves of a marker come together when the brace
\* between them is stripped; the marker is replaced in the same application
C25_Witness ==
    /\ text = <<"k","e","y">> \o sLB \o <<"w","o","r","d",":">>
    /\ applied = <<pKw, pKw>>

\* the token in the cache is still good at the clock's time
Unexpired == oclc.Expires > now

\* C22: a lookup that finds a token in the cache whose expiry is not after
\* the current time requests a new token, and every format lookup is sent
\* with no token or with a token that is unexpired.
C22_NoExpiredTokenSent ==
    [][\A p \in Lookups :
          /\ (RefreshCheck(p) /\ oclc.Token # NoToken /\ ~Unexpired)
                => lookup'[p].pc = "request"
          /\ FormatRequest(p) => (oclc.Token = NoToken \/ Unexpired)]_vars

\* C28: a lookup whose refresh ended with a token in the cache sends its
\* format lookup with a token, whatever the other lookups do meanwhile.
C28_NoClearedTokenAfterRefresh ==
    \A p \in Lookups :
        (lookup[p].pc = "lookup" /\ lookup[p].refreshed \in Tokens)
            => lookup[p].bearer # NoToken

====
